---- MODULE Spec2Model ----
(***************************************************************************)
(* AppleGPUInfo/main.cpp: one run of the program that locates the          *)
(* AGXAccelerator registry entry, reads its 'gpu-core-count' and 'model'   *)
(* properties, maps the model string to a clock speed and prints both.     *)
(*                                                                         *)
(* The registry content (regMatching, regCoreCount, regModel) is fixed by  *)
(* Init; the outcome of each OS call that can fail independently of the    *)
(* registry content is chosen when the call is made.  A CF reference is    *)
(* <<>> (NULL) or a one-element tuple holding the object.                  *)
(***************************************************************************)
EXTENDS Integers, Sequences, FiniteSets, TLC

VARIABLES
  regMatching,      \* number of registry entries matching "AGXAccelerator"
  regCoreCount,     \* 'gpu-core-count' property of the entry: <<>> or <<[type, value]>>
  regModel,         \* 'model' property of the entry: <<>> or <<string>>
  pc,               \* position of the run in main and its callees
  match_dictionary, \* get_gpu_entry: TRUE when IOServiceMatching gave a dictionary
  error,            \* get_gpu_entry: TRUE when the lookup returned an error code
  iterPos,          \* entries the iterator has already yielded
  gpu_entry,        \* handle of the entry: 0 (IO_OBJECT_NULL) or 1..regMatching
  gpu_core_count,   \* get_gpu_core_count: CFNumberRef
  type,             \* get_gpu_core_count: CFNumberType
  value,            \* get_gpu_core_count: int64_t value
  retrieved_value,  \* get_gpu_core_count: result of CFNumberGetValue
  core_count,       \* main: core_count
  model,            \* get_gpu_max_clock_speed: CFStringRef
  max_clock_speed,  \* main: max_clock_speed
  objs,             \* per OS object: times acquired, times released, read after release
  stdout,           \* lines written to std::cout
  stderr,           \* messages written to std::cerr
  exit_code,        \* status passed to exit() or returned by main
  trace             \* OS calls and output statements executed so far, in order

vars == <<regMatching, regCoreCount, regModel, pc, match_dictionary, error,
          iterPos, gpu_entry, gpu_core_count, type, value, retrieved_value,
          core_count, model, max_clock_speed, objs, stdout, stderr, exit_code,
          trace>>

registry == <<regMatching, regCoreCount, regModel>>

-----------------------------------------------------------------------------
(* Bounds and input sets *)

MaxEntries == 3

IO_OBJECT_NULL == 0

NULL == <<>>

NumberTypes == {"kCFNumberSInt32Type", "kCFNumberSInt64Type", "kCFNumberFloat64Type"}

CoreCounts == {-1, 0, 8, 10}

Prefixes == {"", "Apple", "Apple ", "Apple M", "Apple M1", "Apple M2",
             "Apple M3", "Apple A", "apple M1", "AMD "}

Middles == {"", " "}

Suffixes == {"", "M1", "Pro", "Max", "Ultra", "M2", "A14", "A15", "A16", "Foo"}

Models == {p \o m \o s : p \in Prefixes, m \in Middles, s \in Suffixes}

Objects == {"entry_iterator", "gpu_entry", "gpu_core_count", "model"}

-----------------------------------------------------------------------------
(* Pure helpers *)

CFStringHasPrefix(s, p) == Len(p) <= Len(s) /\ SubSeq(s, 1, Len(p)) = p

CFStringHasSuffix(s, p) ==
  Len(p) <= Len(s) /\ SubSeq(s, Len(s) - Len(p) + 1, Len(s)) = p

\* Variant of M1Family: the "Max" tier given the base frequency.
M1Family_MaxAsBase(m) ==
  IF CFStringHasSuffix(m, "M1") THEN 1278
  ELSE IF CFStringHasSuffix(m, "Pro") THEN 1296
  ELSE IF CFStringHasSuffix(m, "Max") THEN 1278
  ELSE IF CFStringHasSuffix(m, "Ultra") THEN 1296
  ELSE 1278

\* Variant of M1Family: the default for unrecognized models taken from the
\* branch above it.
M1Family_DefaultAsUltra(m) ==
  IF CFStringHasSuffix(m, "M1") THEN 1278
  ELSE IF CFStringHasSuffix(m, "Pro") THEN 1296
  ELSE IF CFStringHasSuffix(m, "Max") THEN 1296
  ELSE IF CFStringHasSuffix(m, "Ultra") THEN 1296
  ELSE 1296

\* The branch of get_gpu_max_clock_speed for the prefix "Apple M1".
M1Family(m) ==
  IF CFStringHasSuffix(m, "M1") THEN 1278
  ELSE IF CFStringHasSuffix(m, "Pro") THEN 1296
  ELSE IF CFStringHasSuffix(m, "Max") THEN 1296
  ELSE IF CFStringHasSuffix(m, "Ultra") THEN 1296
  ELSE 1278

\* The branch for the prefix "Apple M2".
M2Family(m) ==
  IF CFStringHasSuffix(m, "M2") THEN 1398
  ELSE 1398

\* Variant of AFamily: an unrecognized model treated as "no information".
AFamily_DefaultAsUnknown(m) ==
  IF CFStringHasSuffix(m, "A14") THEN 1278
  ELSE IF CFStringHasSuffix(m, "A15") THEN 1336
  ELSE IF CFStringHasSuffix(m, "A16") THEN 1336
  ELSE 0

\* The branch for the prefix "Apple A".
AFamily(m) ==
  IF CFStringHasSuffix(m, "A14") THEN 1278
  ELSE IF CFStringHasSuffix(m, "A15") THEN 1336
  ELSE IF CFStringHasSuffix(m, "A16") THEN 1336
  ELSE 1336

ClockSpeedTable(m) ==
  IF CFStringHasPrefix(m, "Apple M1") THEN M1Family(m)
  ELSE IF CFStringHasPrefix(m, "Apple M2") THEN M2Family(m)
  ELSE IF CFStringHasPrefix(m, "Apple M") THEN 1398
  ELSE IF CFStringHasPrefix(m, "Apple A") THEN AFamily(m)
  ELSE 0

Digit(d) == SubSeq("0123456789", d + 1, d + 1)

RECURSIVE DecimalNat(_)
DecimalNat(n) ==
  IF n < 10 THEN Digit(n) ELSE DecimalNat(n \div 10) \o Digit(n % 10)

Decimal(n) == IF n < 0 THEN "-" \o DecimalNat(-n) ELSE DecimalNat(n)

\* The next entry of the iterator, IO_OBJECT_NULL once it is exhausted.
IOIteratorNext == IF iterPos < regMatching THEN iterPos + 1 ELSE IO_OBJECT_NULL

\* The search on IO_OBJECT_NULL cannot reach an entry: the call yields NULL.
\* On a valid entry it yields the property, NULL when the entry has none.
IORegistryEntrySearchCFProperty(entry, property) ==
  IF entry = IO_OBJECT_NULL THEN NULL ELSE property

Acquire(f, o) == [f EXCEPT ![o].acq = @ + 1]

Release(f, o) == [f EXCEPT ![o].rel = @ + 1]

Read(f, o) == [f EXCEPT ![o].stale = @ \/ f[o].rel > 0]

-----------------------------------------------------------------------------
(* release_assert / print_error_message *)

\* Variant of print_error_message: exit(0) in place of exit(-1).
print_error_message_exit0(message) ==
  /\ stderr' = Append(stderr, message)
  /\ exit_code' = 0
  /\ pc' = "exited"

print_error_message(message) ==
  /\ stderr' = Append(stderr, message)
  /\ exit_code' = -1
  /\ pc' = "exited"

\* Variant of release_assert: the message is written but the process is not
\* terminated, so the caller carries on.
release_assert_continue(condition, message, next) ==
  /\ pc' = next
  /\ stderr' = IF condition THEN stderr ELSE Append(stderr, message)
  /\ UNCHANGED exit_code

release_assert(condition, message, next) ==
  IF condition
    THEN pc' = next /\ UNCHANGED <<stderr, exit_code>>
    ELSE print_error_message(message)

-----------------------------------------------------------------------------
Init ==
  /\ regMatching \in 0..MaxEntries
  /\ regCoreCount \in {NULL} \cup
       {<<[type |-> t, value |-> v]>> : t \in NumberTypes, v \in CoreCounts}
  /\ regModel \in {NULL} \cup {<<m>> : m \in Models}
  /\ pc = "ge_match"
  /\ match_dictionary = FALSE
  /\ error = FALSE
  /\ iterPos = 0
  /\ gpu_entry = IO_OBJECT_NULL
  /\ gpu_core_count = NULL
  /\ type = "unset"
  /\ value = 0
  /\ retrieved_value = FALSE
  /\ core_count = 0
  /\ model = NULL
  /\ max_clock_speed = 0
  /\ objs = [o \in Objects |-> [acq |-> 0, rel |-> 0, stale |-> FALSE]]
  /\ stdout = <<>>
  /\ stderr = <<>>
  /\ exit_code = 0
  /\ trace = <<>>

-----------------------------------------------------------------------------
(* get_gpu_entry *)

ge_match ==
  /\ pc = "ge_match"
  /\ \E built \in BOOLEAN :
       /\ match_dictionary' = built
       /\ release_assert(built, "Could not find AGXAccelerator service.",
                         "ge_lookup")
  /\ trace' = Append(trace, "IOServiceMatching")
  /\ UNCHANGED <<registry, error, iterPos, gpu_entry, gpu_core_count, type,
                 value, retrieved_value, core_count, model, max_clock_speed,
                 objs, stdout>>

ge_lookup ==
  /\ pc = "ge_lookup"
  /\ \E err \in BOOLEAN :
       /\ error' = err
       /\ objs' = IF err THEN objs ELSE Acquire(objs, "entry_iterator")
       /\ release_assert(~err, "No objects match AGXAccelerator service.",
                         "ge_next1")
  /\ iterPos' = 0
  /\ trace' = Append(trace, "IOServiceGetMatchingServices")
  /\ UNCHANGED <<registry, match_dictionary, gpu_entry, gpu_core_count, type,
                 value, retrieved_value, core_count, model, max_clock_speed,
                 stdout>>

ge_next1 ==
  /\ pc = "ge_next1"
  /\ gpu_entry' = IOIteratorNext
  /\ iterPos' = IF iterPos < regMatching THEN iterPos + 1 ELSE iterPos
  /\ objs' = IF IOIteratorNext = IO_OBJECT_NULL
               THEN Read(objs, "entry_iterator")
               ELSE Acquire(Read(objs, "entry_iterator"), "gpu_entry")
  /\ pc' = "ge_next2"
  /\ trace' = Append(trace, "IOIteratorNext")
  /\ UNCHANGED <<registry, match_dictionary, error, gpu_core_count, type,
                 value, retrieved_value, core_count, model, max_clock_speed,
                 stdout, stderr, exit_code>>

ge_next2 ==
  /\ pc = "ge_next2"
  /\ iterPos' = IF iterPos < regMatching THEN iterPos + 1 ELSE iterPos
  /\ objs' = Read(objs, "entry_iterator")
  /\ release_assert(IOIteratorNext = IO_OBJECT_NULL, "Found multiple GPUs.",
                    "ge_release")
  /\ trace' = Append(trace, "IOIteratorNext")
  /\ UNCHANGED <<registry, match_dictionary, error, gpu_entry, gpu_core_count,
                 type, value, retrieved_value, core_count, model,
                 max_clock_speed, stdout>>

ge_release ==
  /\ pc = "ge_release"
  /\ objs' = Release(objs, "entry_iterator")
  /\ pc' = "cc_search"
  /\ trace' = Append(trace, "IOObjectRelease(entry_iterator)")
  /\ UNCHANGED <<registry, match_dictionary, error, iterPos, gpu_entry,
                 gpu_core_count, type, value, retrieved_value, core_count,
                 model, max_clock_speed, stdout, stderr, exit_code>>

-----------------------------------------------------------------------------
(* get_gpu_core_count *)

cc_search ==
  /\ pc = "cc_search"
  /\ LET found == IORegistryEntrySearchCFProperty(gpu_entry, regCoreCount) IN
       /\ gpu_core_count' = found
       /\ objs' = IF found = NULL
                    THEN Read(objs, "gpu_entry")
                    ELSE Acquire(Read(objs, "gpu_entry"), "gpu_core_count")
       /\ release_assert(found # NULL,
                         "Could not find 'gpu-core-count' property.", "cc_type")
  /\ trace' = Append(trace, "IORegistryEntrySearchCFProperty(gpu-core-count)")
  /\ UNCHANGED <<registry, match_dictionary, error, iterPos, gpu_entry, type,
                 value, retrieved_value, core_count, model, max_clock_speed,
                 stdout>>

\* Variant of cc_type: the type is fetched but not checked.
cc_type_nocheck ==
  /\ pc = "cc_type"
  /\ type' = gpu_core_count[1].type
  /\ objs' = Read(objs, "gpu_core_count")
  /\ pc' = "cc_value"
  /\ trace' = Append(trace, "CFNumberGetType")
  /\ UNCHANGED <<registry, match_dictionary, error, iterPos, gpu_entry,
                 gpu_core_count, value, retrieved_value, core_count, model,
                 max_clock_speed, stdout, stderr, exit_code>>

cc_type ==
  /\ pc = "cc_type"
  /\ type' = gpu_core_count[1].type
  /\ objs' = Read(objs, "gpu_core_count")
  /\ release_assert(gpu_core_count[1].type = "kCFNumberSInt64Type",
                    "'gpu-core-count' not sInt64.", "cc_value")
  /\ trace' = Append(trace, "CFNumberGetType")
  /\ UNCHANGED <<registry, match_dictionary, error, iterPos, gpu_entry,
                 gpu_core_count, value, retrieved_value, core_count, model,
                 max_clock_speed, stdout>>

cc_value ==
  /\ pc = "cc_value"
  /\ \E ok \in BOOLEAN :
       /\ retrieved_value' = ok
       /\ value' = IF ok THEN gpu_core_count[1].value ELSE value
       /\ release_assert(ok, "Could not fetch 'gpu-core-count' value.",
                         "cc_release")
  /\ objs' = Read(objs, "gpu_core_count")
  /\ trace' = Append(trace, "CFNumberGetValue")
  /\ UNCHANGED <<registry, match_dictionary, error, iterPos, gpu_entry,
                 gpu_core_count, type, core_count, model, max_clock_speed,
                 stdout>>

cc_release ==
  /\ pc = "cc_release"
  /\ objs' = Release(objs, "gpu_core_count")
  /\ core_count' = value
  /\ pc' = "cs_search"
  /\ trace' = Append(trace, "CFRelease(gpu_core_count)")
  /\ UNCHANGED <<registry, match_dictionary, error, iterPos, gpu_entry,
                 gpu_core_count, type, value, retrieved_value, model,
                 max_clock_speed, stdout, stderr, exit_code>>

-----------------------------------------------------------------------------
(* get_gpu_max_clock_speed *)

cs_search ==
  /\ pc = "cs_search"
  /\ LET found == IORegistryEntrySearchCFProperty(gpu_entry, regModel) IN
       /\ model' = found
       /\ objs' = IF found = NULL
                    THEN Read(objs, "gpu_entry")
                    ELSE Acquire(Read(objs, "gpu_entry"), "model")
       /\ release_assert(found # NULL, "Could not find 'model' property.",
                         "cs_table")
  /\ trace' = Append(trace, "IORegistryEntrySearchCFProperty(model)")
  /\ UNCHANGED <<registry, match_dictionary, error, iterPos, gpu_entry,
                 gpu_core_count, type, value, retrieved_value, core_count,
                 max_clock_speed, stdout>>

cs_table ==
  /\ pc = "cs_table"
  /\ max_clock_speed' = ClockSpeedTable(model[1])
  /\ objs' = Read(objs, "model")
  /\ pc' = "main_release"
  /\ trace' = Append(trace, "ClockSpeedTable")
  /\ UNCHANGED <<registry, match_dictionary, error, iterPos, gpu_entry,
                 gpu_core_count, type, value, retrieved_value, core_count,
                 model, stdout, stderr, exit_code>>

-----------------------------------------------------------------------------
(* main *)

\* Variant of main_release: the device handle is never released.
main_release_skip ==
  /\ pc = "main_release"
  /\ pc' = "main_print1"
  /\ UNCHANGED <<registry, match_dictionary, error, iterPos, gpu_entry,
                 gpu_core_count, type, value, retrieved_value, core_count,
                 model, max_clock_speed, objs, stdout, stderr, exit_code,
                 trace>>

main_release ==
  /\ pc = "main_release"
  /\ objs' = Release(objs, "gpu_entry")
  /\ pc' = "main_print1"
  /\ trace' = Append(trace, "IOObjectRelease(gpu_entry)")
  /\ UNCHANGED <<registry, match_dictionary, error, iterPos, gpu_entry,
                 gpu_core_count, type, value, retrieved_value, core_count,
                 model, max_clock_speed, stdout, stderr, exit_code>>

main_print1 ==
  /\ pc = "main_print1"
  /\ stdout' = Append(stdout, "The GPU has " \o Decimal(core_count) \o " cores.")
  /\ pc' = "main_print2"
  /\ trace' = Append(trace, "print")
  /\ UNCHANGED <<registry, match_dictionary, error, iterPos, gpu_entry,
                 gpu_core_count, type, value, retrieved_value, core_count,
                 model, max_clock_speed, objs, stderr, exit_code>>

\* Variant of main_print2: the second line prints core_count again.
main_print2_cores ==
  /\ pc = "main_print2"
  /\ stdout' = Append(stdout,
                      "The GPU runs at " \o Decimal(core_count) \o " MHz.")
  /\ pc' = "main_return"
  /\ trace' = Append(trace, "print")
  /\ UNCHANGED <<registry, match_dictionary, error, iterPos, gpu_entry,
                 gpu_core_count, type, value, retrieved_value, core_count,
                 model, max_clock_speed, objs, stderr, exit_code>>

main_print2 ==
  /\ pc = "main_print2"
  /\ stdout' = Append(stdout,
                      "The GPU runs at " \o Decimal(max_clock_speed) \o " MHz.")
  /\ pc' = "main_return"
  /\ trace' = Append(trace, "print")
  /\ UNCHANGED <<registry, match_dictionary, error, iterPos, gpu_entry,
                 gpu_core_count, type, value, retrieved_value, core_count,
                 model, max_clock_speed, objs, stderr, exit_code>>

main_return ==
  /\ pc = "main_return"
  /\ exit_code' = 0
  /\ pc' = "returned"
  /\ trace' = Append(trace, "return")
  /\ UNCHANGED <<registry, match_dictionary, error, iterPos, gpu_entry,
                 gpu_core_count, type, value, retrieved_value, core_count,
                 model, max_clock_speed, objs, stdout, stderr>>

-----------------------------------------------------------------------------
Next ==
  \/ ge_match
  \/ ge_lookup
  \/ ge_next1
  \/ ge_next2
  \/ ge_release
  \/ cc_search
  \/ cc_type
  \/ cc_value
  \/ cc_release
  \/ cs_search
  \/ cs_table
  \/ main_release
  \/ main_print1
  \/ main_print2
  \/ main_return

Spec == Init /\ [][Next]_vars

\* The run is one sequential thread whose OS calls all return: every enabled
\* step is eventually taken.
FairSpec == Spec /\ WF_vars(Next)

-----------------------------------------------------------------------------
(* Vocabulary of the properties *)

Range(q) == {q[i] : i \in 1..Len(q)}

Terminated == pc \in {"exited", "returned"}

\* get_gpu_max_clock_speed has returned to main.
TableApplied ==
  pc \in {"main_release", "main_print1", "main_print2", "main_return", "returned"}

M1Suffixes == {"M1", "Pro", "Max", "Ultra"}

ASuffixes == {"A14", "A15", "A16"}

ErrorMessages ==
  {"Could not find AGXAccelerator service.",
   "No objects match AGXAccelerator service.",
   "Found multiple GPUs.",
   "Could not find 'gpu-core-count' property.",
   "'gpu-core-count' not sInt64.",
   "Could not fetch 'gpu-core-count' value.",
   "Could not find 'model' property."}

FatalError ==
  /\ pc = "exited"
  /\ Len(stderr) = 1
  /\ exit_code # 0
  /\ stdout = <<>>

\* The step of the run (locate, read core count, read model, look up, release
\* the device handle, print, exit) that a recorded call belongs to.
StepOf(e) ==
  CASE e \in {"IOServiceMatching", "IOServiceGetMatchingServices",
              "IOIteratorNext", "IOObjectRelease(entry_iterator)"} -> "locate"
    [] e \in {"IORegistryEntrySearchCFProperty(gpu-core-count)",
              "CFNumberGetType", "CFNumberGetValue",
              "CFRelease(gpu_core_count)"} -> "read core count"
    [] e = "IORegistryEntrySearchCFProperty(model)" -> "read model"
    [] e = "ClockSpeedTable" -> "look up"
    [] e = "IOObjectRelease(gpu_entry)" -> "release"
    [] e = "print" -> "print"
    [] e = "return" -> "exit"

\* The steps of a trace, consecutive calls of one step counted once.
RECURSIVE Steps(_)
Steps(q) ==
  IF q = <<>> THEN <<>>
  ELSE LET front == Steps(SubSeq(q, 1, Len(q) - 1))
           s == StepOf(q[Len(q)])
       IN IF front # <<>> /\ front[Len(front)] = s THEN front
          ELSE Append(front, s)

-----------------------------------------------------------------------------
\* C1: when exactly one entry matches, its 'gpu-core-count' is a 64-bit signed
\* number N whose extraction succeeded and its 'model' is a string M, nothing is
\* ever written to the error stream, the run does not exit through the error
\* path, it reaches the end of main, and there standard output is exactly
\* "The GPU has N cores." then "The GPU runs at C MHz." with C the table's value
\* for M and the status is 0 (N = 10, M = "Apple M2": 10 and 1398).
C1_Case ==
  /\ regMatching = 1
  /\ regCoreCount # NULL
  /\ regCoreCount[1].type = "kCFNumberSInt64Type"
  /\ retrieved_value
  /\ regModel # NULL

C1_Output ==
  /\ pc = "returned"
  /\ exit_code = 0
  /\ stderr = <<>>
  /\ stdout = <<"The GPU has " \o ToString(regCoreCount[1].value) \o " cores.",
                "The GPU runs at " \o ToString(ClockSpeedTable(regModel[1]))
                  \o " MHz.">>
  /\ (regCoreCount[1].value = 10 /\ regModel[1] = "Apple M2"
        => stdout = <<"The GPU has 10 cores.", "The GPU runs at 1398 MHz.">>)

C1_EndToEnd ==
  /\ [](C1_Case => /\ stderr = <<>>
                   /\ pc # "exited"
                   /\ Len(stdout) <= 2
                   /\ (pc = "returned" => C1_Output))
  /\ (C1_Case ~> C1_Output)

C1_Witness ==
  /\ C1_Case
  /\ pc = "returned"
  /\ regCoreCount[1].value = 10
  /\ regModel[1] = "Apple M2"
  /\ stdout = <<"The GPU has 10 cores.", "The GPU runs at 1398 MHz.">>

-----------------------------------------------------------------------------
\* C2: once get_gpu_max_clock_speed has returned, a model string listed in the
\* table has its documented constant: prefix "Apple M1" with suffix "M1" (and
\* the exact string "Apple M1") 1278; with suffix "Pro", "Max" or "Ultra" 1296;
\* prefix "Apple M2" with suffix "M2" 1398; prefix "Apple A" with suffix "A14"
\* 1278, with "A15" 1336, with "A16" 1336.
C2_KnownModels ==
  TableApplied =>
    LET m == model[1] IN
    /\ (CFStringHasPrefix(m, "Apple M1") /\ CFStringHasSuffix(m, "M1")
          => max_clock_speed = 1278)
    /\ (m = "Apple M1" => max_clock_speed = 1278)
    /\ \A s \in {"Pro", "Max", "Ultra"} :
         CFStringHasPrefix(m, "Apple M1") /\ CFStringHasSuffix(m, s)
           => max_clock_speed = 1296
    /\ (m \in {"Apple M1 Pro", "Apple M1 Max", "Apple M1 Ultra"}
          => max_clock_speed = 1296)
    /\ (CFStringHasPrefix(m, "Apple M2") /\ CFStringHasSuffix(m, "M2")
          => max_clock_speed = 1398)
    /\ (m = "Apple M2" => max_clock_speed = 1398)
    /\ (CFStringHasPrefix(m, "Apple A") /\ CFStringHasSuffix(m, "A14")
          => max_clock_speed = 1278)
    /\ (m = "Apple A14" => max_clock_speed = 1278)
    /\ \A s \in {"A15", "A16"} :
         CFStringHasPrefix(m, "Apple A") /\ CFStringHasSuffix(m, s)
           => max_clock_speed = 1336
    /\ (m \in {"Apple A15", "Apple A16"} => max_clock_speed = 1336)

C2_Witness ==
  /\ TableApplied
  /\ model[1] = "Apple M1 Max"
  /\ max_clock_speed = 1296

\* C3: a model string with a recognized family prefix and a suffix that is not
\* one of that family's listed suffixes never makes the run fail, and once
\* get_gpu_max_clock_speed has returned the result is the family's baseline:
\* 1278 for "Apple M1" (e.g. "Apple M1 Foo"), 1398 for "Apple M2", 1398 for
\* any other string starting with "Apple M", 1336 for "Apple A".
C3_Fallback(m) ==
  IF CFStringHasPrefix(m, "Apple M1")
    THEN IF \E s \in M1Suffixes : CFStringHasSuffix(m, s) THEN <<>> ELSE <<1278>>
  ELSE IF CFStringHasPrefix(m, "Apple M2")
    THEN IF CFStringHasSuffix(m, "M2") THEN <<>> ELSE <<1398>>
  ELSE IF CFStringHasPrefix(m, "Apple M") THEN <<1398>>
  ELSE IF CFStringHasPrefix(m, "Apple A")
    THEN IF \E s \in ASuffixes : CFStringHasSuffix(m, s) THEN <<>> ELSE <<1336>>
  ELSE <<>>

C3_UnknownSuffix ==
  model # NULL /\ C3_Fallback(model[1]) # <<>> =>
    /\ pc # "exited"
    /\ stderr = <<>>
    /\ (TableApplied => max_clock_speed = C3_Fallback(model[1])[1])
    /\ (TableApplied /\ model[1] = "Apple M1 Foo" => max_clock_speed = 1278)
    /\ (TableApplied /\ model[1] = "Apple M3 Max" => max_clock_speed = 1398)

C3_Witness ==
  /\ TableApplied
  /\ model[1] = "Apple M1 Foo"
  /\ max_clock_speed = 1278

\* C4: a model string that is present and starts with neither "Apple M" nor
\* "Apple A" (the empty string included) never makes the run fail, gives 0 once
\* get_gpu_max_clock_speed has returned, and the run goes on to print both lines
\* and end with status 0; and no string with a recognized family prefix gives 0.
C4_Unrecognized ==
  /\ model # NULL
  /\ ~CFStringHasPrefix(model[1], "Apple M")
  /\ ~CFStringHasPrefix(model[1], "Apple A")

C4_Printed ==
  /\ pc = "returned"
  /\ exit_code = 0
  /\ Len(stdout) = 2
  /\ stdout[2] = "The GPU runs at 0 MHz."

C4_ZeroSentinel ==
  /\ [](C4_Unrecognized => /\ pc # "exited"
                           /\ stderr = <<>>
                           /\ (TableApplied => max_clock_speed = 0)
                           /\ (pc = "returned" => C4_Printed))
  /\ [](TableApplied /\ ~C4_Unrecognized => max_clock_speed # 0)
  /\ (C4_Unrecognized ~> C4_Printed)

C4_Witness ==
  /\ C4_Unrecognized
  /\ model[1] = ""
  /\ C4_Printed

\* C5: whenever get_gpu_entry returns to main, whatever the number of matching
\* entries, the handle it returns is non-null and is the handle of the one and
\* only matching entry.
C5_ReturnsTheOnlyEntry ==
  pc = "cc_search" => gpu_entry # IO_OBJECT_NULL /\ regMatching = 1

\* C6: if the registry query succeeds but reports zero matching devices, the
\* run ends with a fatal error (a message on the error stream and a non-zero
\* status) and nothing is ever written to standard output.
C6_QueryReportedZero ==
  /\ regMatching = 0
  /\ match_dictionary
  /\ ~error
  /\ pc \notin {"ge_match", "ge_lookup"}

C6_ZeroDevices ==
  /\ [](C6_QueryReportedZero => stdout = <<>> /\ pc # "returned"
                                 /\ (Terminated => FatalError))
  /\ (C6_QueryReportedZero ~> FatalError)

C6_Witness ==
  /\ C6_QueryReportedZero
  /\ FatalError
  /\ gpu_entry = IO_OBJECT_NULL

-----------------------------------------------------------------------------
\* The failure the step from the current state detects, as <<message>>, or <<>>
\* when the step detects none: the match dictionary could not be built, the
\* lookup returned an error, a second entry matched, a property is missing,
\* the core-count number has the wrong type, or its value could not be fetched.
C7_Detected ==
  IF pc = "ge_match" /\ ~match_dictionary'
    THEN <<"Could not find AGXAccelerator service.">>
  ELSE IF pc = "ge_lookup" /\ error'
    THEN <<"No objects match AGXAccelerator service.">>
  ELSE IF pc = "ge_next2" /\ regMatching > 1
    THEN <<"Found multiple GPUs.">>
  ELSE IF pc = "cc_search" /\ (regCoreCount = NULL \/ gpu_entry = IO_OBJECT_NULL)
    THEN <<"Could not find 'gpu-core-count' property.">>
  ELSE IF pc = "cc_type" /\ regCoreCount[1].type # "kCFNumberSInt64Type"
    THEN <<"'gpu-core-count' not sInt64.">>
  ELSE IF pc = "cc_value" /\ ~retrieved_value'
    THEN <<"Could not fetch 'gpu-core-count' value.">>
  ELSE IF pc = "cs_search" /\ regModel = NULL
    THEN <<"Could not find 'model' property.">>
  ELSE <<>>

\* C7: the step that detects a failure writes that failure's one message to the
\* error stream and ends the run with status -1 whichever failure it was, with
\* standard output still empty; a run that has written to the error stream has
\* written exactly one message, has exited with status -1 and has written
\* nothing to standard output; and after the failure nothing more happens: no
\* registry call, no output, no retry.
C7_FatalAtDetection ==
  /\ [](stderr # <<>> => /\ pc = "exited"
                         /\ Len(stderr) = 1
                         /\ stderr[1] \in ErrorMessages
                         /\ exit_code = -1
                         /\ stdout = <<>>)
  /\ [][C7_Detected # <<>> => /\ stderr = <<>>
                              /\ stderr' = C7_Detected
                              /\ pc' = "exited"
                              /\ exit_code' = -1
                              /\ stdout' = <<>>
                              /\ Len(trace') = Len(trace) + 1]_vars
  /\ [][stderr # <<>> => UNCHANGED vars]_vars
  /\ [](pc = "exited" => stderr # <<>>)

C7_Witness ==
  /\ pc = "exited"
  /\ stderr = <<"Found multiple GPUs.">>
  /\ exit_code = -1
  /\ regMatching > 1
  /\ stdout = <<>>

\* C8: if exactly one device is located and its 'gpu-core-count' property is
\* present with a numeric type other than 64-bit signed, the model property is
\* never read, no clock-speed lookup is made, nothing is written to standard
\* output, and the run ends with the fatal error "'gpu-core-count' not sInt64."
C8_WrongType ==
  /\ regMatching = 1
  /\ gpu_entry # IO_OBJECT_NULL
  /\ regCoreCount # NULL
  /\ regCoreCount[1].type # "kCFNumberSInt64Type"

C8_Fatal ==
  /\ FatalError
  /\ stderr = <<"'gpu-core-count' not sInt64.">>

C8_WrongTypeBeforeClockSpeed ==
  /\ [](C8_WrongType =>
          /\ model = NULL
          /\ "IORegistryEntrySearchCFProperty(model)" \notin Range(trace)
          /\ "ClockSpeedTable" \notin Range(trace)
          /\ ~TableApplied
          /\ stdout = <<>>
          /\ (Terminated => C8_Fatal))
  /\ (C8_WrongType ~> C8_Fatal)

C8_Witness ==
  /\ C8_WrongType
  /\ C8_Fatal
  /\ type = "kCFNumberSInt32Type"
  /\ trace[Len(trace)] = "CFNumberGetType"

\* C9 as stated: a successful run goes locate, read core count, read model,
\* look up, print, release, exit, each once, and the device handle is released
\* only after both lines have been printed.
C9_ReleaseAfterPrint ==
  /\ (pc = "returned" =>
        Steps(trace) = <<"locate", "read core count", "read model", "look up",
                         "print", "release", "exit">>)
  /\ (objs["gpu_entry"].rel > 0 => Len(stdout) = 2)

SuccessTrace ==
  <<"IOServiceMatching", "IOServiceGetMatchingServices", "IOIteratorNext",
    "IOIteratorNext", "IOObjectRelease(entry_iterator)",
    "IORegistryEntrySearchCFProperty(gpu-core-count)", "CFNumberGetType",
    "CFNumberGetValue", "CFRelease(gpu_core_count)",
    "IORegistryEntrySearchCFProperty(model)", "ClockSpeedTable",
    "IOObjectRelease(gpu_entry)", "print", "print", "return">>

\* C9 as amended: a successful run goes locate, read core count, read model,
\* look up, release the device handle, print the two lines, exit, each once and
\* none revisited; the device handle is released before either line is printed.
C9_ReleaseBeforePrint ==
  /\ (pc = "returned" =>
        /\ Steps(trace) = <<"locate", "read core count", "read model",
                            "look up", "release", "print", "exit">>
        /\ trace = SuccessTrace
        /\ Len(stdout) = 2)
  /\ (stdout # <<>> => objs["gpu_entry"].rel = 1)
  /\ (objs["gpu_entry"].rel > 0 /\ pc = "main_print1" => stdout = <<>>)

C9_Witness ==
  /\ pc = "returned"
  /\ exit_code = 0
  /\ objs["gpu_entry"].rel = 1
  /\ Len(stdout) = 2

\* C10: at the end of a successful run every object acquired from the OS (the
\* device handle, the iteration handle, the core-count number and the model
\* string) has been released exactly once, and none was read after its release.
C10_AllReleasedOnce ==
  pc = "returned" =>
    \A o \in Objects :
      /\ objs[o].acq = 1
      /\ objs[o].rel = 1
      /\ ~objs[o].stale

====
